---- MODULE Spec2Model ----
(***************************************************************************)
(* A model of the lsmtree-rs key-value store: the directory storage        *)
(* (blobs are byte sequences), the WAL framing and its replay at open,     *)
(* the memtable, the SSTable image and its on-disk binary search, and the  *)
(* Database operations open / put / get / delete / maintain, with process  *)
(* stops between the storage effects of put, delete and maintain.          *)
(***************************************************************************)
EXTENDS Integers, Sequences, FiniteSets, TLC

\* ------------------------------------------------------------------ bounds
NumKeys == 2
NumValues == 2
MaxWalBytes == 24
MaxTables == 2
MaxOps == 5
MaxFaults == 1
Huge == 100000

\* keys "a", "b", ... and values "1", "2", ... as byte strings
Keys == {<<96 + i>> : i \in 1..NumKeys}
Values == {<<48 + i>> : i \in 1..NumValues}

\* ------------------------------------------------------- program constants
TagPut == 0
TagDelete == 1
TagWriteSstableStart == 2
TagWriteSstableEnd == 3
FlushLevel == 1

WalName == <<119, 97, 108>>          \* "wal"
SstSuffix == <<46, 115, 115, 116>>   \* ".sst"
Dash == 45
Dot == 46
Plus == 43

\* ------------------------------------------------------------ byte strings
Range(s) == {s[i] : i \in 1..Len(s)}

Min(a, b) == IF a < b THEN a ELSE b

\* lexicographic order on byte strings (Ord for [u8])
RECURSIVE BytesLess(_, _)
BytesLess(a, b) ==
    IF b = <<>> THEN FALSE
    ELSE IF a = <<>> THEN TRUE
    ELSE IF a[1] # b[1] THEN a[1] < b[1]
    ELSE BytesLess(Tail(a), Tail(b))

\* lexicographic order on (level, id) pairs
PairLess(p, q) == p[1] < q[1] \/ (p[1] = q[1] /\ p[2] < q[2])

\* big-endian u32 / u64 writers (byteorder::WriteBytesExt)
BE32(n) == << (n \div 16777216) % 256, (n \div 65536) % 256, (n \div 256) % 256, n % 256 >>

\* every offset written by the model is below 2^32, the high word is zero
BE64(n) == <<0, 0, 0, 0>> \o BE32(n)

\* big-endian reader; a value of Huge or more is past the end of every blob
\* of the model and is kept as Huge
RECURSIVE BEAcc(_, _)
BEAcc(bytes, acc) ==
    IF bytes = <<>> THEN acc
    ELSE BEAcc(Tail(bytes), Min(Huge, acc * 256 + bytes[1]))

BEVal(bytes) == BEAcc(bytes, 0)

\* ReadAt::read_exact_at: fills the buffer or fails with UnexpectedEof
ReadExactAt(file, len, offset) ==
    IF len = 0 THEN [ok |-> TRUE, bytes |-> <<>>]
    ELSE IF offset + len > Len(file) THEN [ok |-> FALSE, bytes |-> <<>>]
    ELSE [ok |-> TRUE, bytes |-> SubSeq(file, offset + 1, offset + len)]

\* a write of the appender's file at its current position
WriteAt(file, pos, bytes) ==
    SubSeq(file, 1, pos) \o bytes \o SubSeq(file, pos + Len(bytes) + 1, Len(file))

\* read_vec: a u32 length then that many bytes
ReadVec(file, offset) ==
    LET lenBuf == ReadExactAt(file, 4, offset) IN
    IF ~lenBuf.ok THEN [ok |-> FALSE, vec |-> <<>>, offset |-> offset]
    ELSE LET len == BEVal(lenBuf.bytes)
             body == ReadExactAt(file, len, offset + 4)
         IN IF ~body.ok THEN [ok |-> FALSE, vec |-> <<>>, offset |-> offset + 4]
            ELSE [ok |-> TRUE, vec |-> body.bytes, offset |-> offset + 4 + len]

\* write_vec makes two appends: the length, then the bytes
WriteVecChunks(buf) == << BE32(Len(buf)), buf >>

RECURSIVE Concat(_)
Concat(chunks) == IF chunks = <<>> THEN <<>> ELSE Head(chunks) \o Concat(Tail(chunks))

\* -------------------------------------------------------------- memtable
\* slice::binary_search_by_key on the entries: [found, index]
RECURSIVE BinarySearch(_, _, _, _)
BinarySearch(entries, key, lo, hi) ==
    IF lo >= hi THEN [found |-> FALSE, index |-> lo]
    ELSE LET mid == lo + ((hi - lo) \div 2) IN
         IF entries[mid + 1][1] = key THEN [found |-> TRUE, index |-> mid]
         ELSE IF BytesLess(entries[mid + 1][1], key)
              THEN BinarySearch(entries, key, mid + 1, hi)
              ELSE BinarySearch(entries, key, lo, mid)

Search(entries, key) == BinarySearch(entries, key, 0, Len(entries))

\* an insert that ignores the index and adds the element at the end
InsertAtEnd(s, index, e) == Append(s, e)

InsertAt(s, index, e) == SubSeq(s, 1, index) \o <<e>> \o SubSeq(s, index + 1, Len(s))

RemoveAt(s, index) == SubSeq(s, 1, index) \o SubSeq(s, index + 2, Len(s))

\* a put that leaves the value of a key already present as it was
MemPutKeepsOld(entries, key, value) ==
    LET r == Search(entries, key) IN
    IF r.found THEN entries ELSE InsertAt(entries, r.index, <<key, value>>)

MemPut(entries, key, value) ==
    LET r == Search(entries, key) IN
    IF r.found THEN [entries EXCEPT ![r.index + 1] = <<key, value>>]
    ELSE InsertAt(entries, r.index, <<key, value>>)

MemDelete(entries, key) ==
    LET r == Search(entries, key) IN
    IF r.found THEN RemoveAt(entries, r.index) ELSE entries

None == [kind |-> "None", value |-> <<>>]
Some(v) == [kind |-> "Some", value |-> v]
IoErr == [kind |-> "Err", value |-> <<>>]

MemGet(entries, key) ==
    LET r == Search(entries, key) IN
    IF r.found THEN Some(entries[r.index + 1][2]) ELSE None

\* ---------------------------------------------------------------- sstable
RECURSIVE SstOffsets(_, _)
SstOffsets(entries, offset) ==
    IF entries = <<>> THEN <<>>
    ELSE BE64(offset) \o
         SstOffsets(Tail(entries), offset + 4 + Len(Head(entries)[1]) + 4 + Len(Head(entries)[2]))

RECURSIVE SstPayload(_)
SstPayload(entries) ==
    IF entries = <<>> THEN <<>>
    ELSE BE32(Len(Head(entries)[1])) \o Head(entries)[1] \o
         BE32(Len(Head(entries)[2])) \o Head(entries)[2] \o SstPayload(Tail(entries))

\* write_sstable: count, offsets array, entries
WriteSstable(entries) == BE32(Len(entries)) \o SstOffsets(entries, 0) \o SstPayload(entries)

\* SSTableReader::open: the entry count is read once and cached
SstOpen(file) ==
    LET sizeBuf == ReadExactAt(file, 4, 0) IN
    IF ~sizeBuf.ok THEN [ok |-> FALSE, size |-> 0]
    ELSE [ok |-> TRUE, size |-> BEVal(sizeBuf.bytes)]

\* the body of the while loop of SSTableReader::get; tableSize is self.size
RECURSIVE SstSearch(_, _, _, _, _)
SstSearch(file, tableSize, key, size, base) ==
    IF size <= 1 THEN None
    ELSE
    LET half == size \div 2
        midIndex == base + half
        sectionEntries == 4 + tableSize * 8
        midOffsetBuf == ReadExactAt(file, 8, 4 + midIndex * 8)
        midOffset == BEVal(midOffsetBuf.bytes)
        keyLenBuf == ReadExactAt(file, 4, sectionEntries + midOffset)
        midKeyLen == BEVal(keyLenBuf.bytes)
        mid == ReadExactAt(file, midKeyLen, sectionEntries + midOffset + 4)
        valueLenBuf == ReadExactAt(file, 4, sectionEntries + midOffset + 4 + midKeyLen)
        valueLen == BEVal(valueLenBuf.bytes)
        value == ReadExactAt(file, valueLen, sectionEntries + midOffset + 4 + midKeyLen + 4)
    IN
    IF ~midOffsetBuf.ok THEN IoErr
    ELSE IF ~keyLenBuf.ok THEN IoErr
    ELSE IF ~mid.ok THEN IoErr
    ELSE IF mid.bytes = key
         THEN IF ~valueLenBuf.ok THEN IoErr
              ELSE IF ~value.ok THEN IoErr
              ELSE Some(value.bytes)
    ELSE IF BytesLess(mid.bytes, key)
         THEN SstSearch(file, tableSize, key, size - half, midIndex)
         ELSE SstSearch(file, tableSize, key, size - half, base)

\* SSTableReader::get
SstGet(file, tableSize, key) ==
    IF tableSize = 0 THEN None ELSE SstSearch(file, tableSize, key, tableSize, 0)

\* ------------------------------------------------------------ table names
IsDigit(b) == b >= 48 /\ b <= 57

RECURSIVE ToDec(_)
ToDec(n) == IF n < 10 THEN <<48 + n>> ELSE ToDec(n \div 10) \o <<48 + (n % 10)>>

\* format!("1-{}.sst", new_id)
SstName(level, id) == ToDec(level) \o <<Dash>> \o ToDec(id) \o SstSuffix

\* a u32 is held as <<high 16 bits, low 16 bits>>
U32Half == 65536

\* the u32 an integer of the model stands for, and back; an integer of the
\* model never exceeds Huge
U32(n) == <<n \div U32Half, n % U32Half>>
U32Int(u) == IF u[1] >= 2 THEN Huge ELSE Min(Huge, u[1] * U32Half + u[2])

\* digit after digit: checked_mul(10) then checked_add(digit) on a u32
RECURSIVE DecAcc(_, _)
DecAcc(digits, acc) ==
    IF digits = <<>> \/ ~acc.ok THEN acc
    ELSE LET low == acc.value[2] * 10 + (Head(digits) - 48)
             high == acc.value[1] * 10 + (low \div U32Half)
         IN DecAcc(Tail(digits),
                   [ok |-> high < U32Half, value |-> <<high % U32Half, low % U32Half>>])

\* str::parse::<u32>: an optional '+', then one or more decimal digits whose
\* value fits 32 bits
ParseU32(s) ==
    LET digits == IF s # <<>> /\ s[1] = Plus THEN Tail(s) ELSE s
        parsed == DecAcc(digits, [ok |-> TRUE, value |-> <<0, 0>>])
    IN
    IF digits = <<>> \/ \E i \in 1..Len(digits) : ~IsDigit(digits[i])
    THEN [ok |-> FALSE, value |-> <<0, 0>>]
    ELSE IF ~parsed.ok THEN [ok |-> FALSE, value |-> <<0, 0>>]
    ELSE parsed

\* str::find: the 0-based index of the first occurrence, Len(s) when none
Find(s, b) ==
    IF \E i \in 1..Len(s) : s[i] = b
    THEN (CHOOSE i \in 1..Len(s) : s[i] = b /\ \A j \in 1..(i - 1) : s[j] # b) - 1
    ELSE Len(s)

EndsWith(s, suffix) ==
    /\ Len(s) >= Len(suffix)
    /\ SubSeq(s, Len(s) - Len(suffix) + 1, Len(s)) = suffix

ParseSstableName(name) ==
    LET dash == Find(name, Dash)
        level == ParseU32(SubSeq(name, 1, dash))
        rest == SubSeq(name, dash + 2, Len(name))
        dotRel == Find(rest, Dot)
        dot == dash + 1 + dotRel
        id == ParseU32(SubSeq(name, dash + 2, dot))
        bad == [ok |-> FALSE, id |-> <<(<<0, 0>>), (<<0, 0>>)>>]
    IN
    IF dash = Len(name) THEN bad
    ELSE IF ~level.ok THEN bad
    ELSE IF dotRel = Len(rest) THEN bad
    ELSE IF ~id.ok THEN bad
    ELSE IF SubSeq(name, dot + 1, Len(name)) # SstSuffix THEN bad
    ELSE [ok |-> TRUE, id |-> <<level.value, id.value>>]

\* ------------------------------------------------------------------ state
VARIABLES
    files,      \* the storage directory: blob name -> bytes
    open,       \* TRUE while a Database value exists
    mem_table,  \* Database.mem_table.entries
    sstables,   \* Database.sstables: <<[id, name, size]>>, a reader per entry
    wal_pos,    \* file position of the WAL appender
    ops,        \* the number of put, delete, iter_range and maintain calls so far
    last,       \* the last operation, its result, and for put what get gave
                \* for the key before, for open the storage before
    snap,       \* what get returned and the memtable held when the last maintain began
    flushed,    \* blob name -> the image that the first maintain to complete for it wrote
    faults      \* the number of calls so far that a storage error made fail

vars == <<files, open, mem_table, sstables, wal_pos, ops, last, snap, flushed, faults>>

NoSnap == [point |-> 0, gets |-> <<>>, mem |-> <<>>]

Op(op, key, value, res, pre) ==
    [op |-> op, key |-> key, value |-> value, res |-> res, pre |-> pre]

Remove(fs, name) == [n \in (DOMAIN fs) \ {name} |-> fs[n]]

Store(fs, name, bytes) == [n \in (DOMAIN fs) \cup {name} |-> IF n = name THEN bytes ELSE fs[n]]

\* all orders in which a set can be enumerated
Orders(S) == {s \in [1..Cardinality(S) -> S] : \A i, j \in 1..Cardinality(S) : s[i] = s[j] => i = j}

\* --------------------------------------------------------------- database
\* the loop over the registry of Database::get, newest index first
RECURSIVE GetTables(_, _, _, _)
GetTables(fs, tables, i, key) ==
    IF i = 0 THEN None
    ELSE LET r == SstGet(fs[tables[i].name], tables[i].size, key) IN
         IF r.kind = "None" THEN GetTables(fs, tables, i - 1, key) ELSE r

\* Database::get
DbGet(fs, mem, tables, key) ==
    LET m == MemGet(mem, key) IN
    IF m.kind = "Some" THEN m ELSE GetTables(fs, tables, Len(tables), key)

Get(key) == DbGet(files, mem_table, sstables, key)

IsAscii(bytes) == \A i \in 1..Len(bytes) : bytes[i] < 128

\* the WAL replay loop of Database::open
RECURSIVE Replay(_, _, _, _)
Replay(wal, offset, mem, incomplete) ==
    LET opBuf == ReadExactAt(wal, 1, offset)
        tag == opBuf.bytes[1]
        key == ReadVec(wal, offset + 1)
        second == ReadVec(wal, key.offset)
        io == [res |-> "io", mem |-> mem, incomplete |-> incomplete]
        invalid == [res |-> "invalid", mem |-> mem, incomplete |-> incomplete]
    IN
    IF ~opBuf.ok THEN [res |-> "ok", mem |-> mem, incomplete |-> incomplete]
    ELSE IF tag \notin {TagPut, TagDelete, TagWriteSstableStart, TagWriteSstableEnd} THEN invalid
    ELSE IF ~key.ok THEN io
    ELSE IF tag = TagDelete THEN Replay(wal, key.offset, MemDelete(mem, key.vec), incomplete)
    ELSE IF ~second.ok THEN io
    ELSE IF tag = TagPut
         THEN Replay(wal, second.offset, MemPut(mem, key.vec, second.vec), incomplete)
    ELSE IF ~IsAscii(second.vec) THEN invalid
    ELSE IF tag = TagWriteSstableStart
         THEN Replay(wal, second.offset, mem, incomplete \cup {second.vec})
         ELSE Replay(wal, second.offset, mem, incomplete \ {second.vec})

\* Storage::delete fails on a name that is no file name: empty, ".", "..",
\* or holding a NUL byte; a missing file is not an error
DeleteFails(fs, name) ==
    /\ name \notin DOMAIN fs
    /\ (name = <<>> \/ name = <<Dot>> \/ name = <<Dot, Dot>> \/ 0 \in Range(name))

\* the loop "for sstable in &incomplete_sstables { storage.delete(..)? }"
RECURSIVE DeleteAll(_, _)
DeleteAll(fs, names) ==
    IF names = <<>> THEN [ok |-> TRUE, files |-> fs]
    ELSE IF DeleteFails(fs, Head(names)) THEN [ok |-> FALSE, files |-> fs]
    ELSE DeleteAll(Remove(fs, Head(names)), Tail(names))

\* the loop "for name in sstable_names" of Database::open
RECURSIVE OpenTables(_, _, _, _)
OpenTables(fs, names, incomplete, tables) ==
    IF names = <<>> THEN [res |-> "ok", tables |-> tables]
    ELSE IF Head(names) \in incomplete THEN OpenTables(fs, Tail(names), incomplete, tables)
    ELSE LET table == SstOpen(fs[Head(names)])
             id == ParseSstableName(Head(names))
         IN IF ~table.ok THEN [res |-> "io", tables |-> tables]
            ELSE IF ~id.ok THEN [res |-> "invalid", tables |-> tables]
            ELSE OpenTables(fs, Tail(names), incomplete,
                     Append(tables, [id |-> <<U32Int(id.id[1]), U32Int(id.id[2])>>,
                                     name |-> Head(names), size |-> table.size]))

\* Database::open on the storage fs; listing is the order of Storage::list
\* without "wal", incOrder the iteration order of the incomplete_sstables set
OpenDb(fs, listing, incOrder) ==
    LET names == DOMAIN fs
        walFound == WalName \in names
        fail(r, f) == [res |-> r, files |-> f, mem |-> <<>>, tables |-> <<>>]
        rp == Replay(fs[WalName], 0, <<>>, {})
        del == DeleteAll(fs, incOrder)
        tabs == OpenTables(del.files, listing, rp.incomplete, <<>>)
    IN
    IF \E n \in names : n # WalName /\ ~EndsWith(n, SstSuffix) THEN fail("invalid", fs)
    ELSE IF ~walFound /\ listing # <<>> THEN fail("invalid", fs)
    ELSE IF ~walFound
         THEN [res |-> "ok", files |-> Store(fs, WalName, <<>>), mem |-> <<>>, tables |-> <<>>]
    ELSE IF rp.res # "ok" THEN fail(rp.res, fs)
    ELSE IF ~del.ok THEN fail("io", del.files)
    ELSE IF tabs.res # "ok" THEN fail(tabs.res, del.files)
    ELSE [res |-> "ok",
          files |-> IF WalName \in DOMAIN del.files THEN del.files
                    ELSE Store(del.files, WalName, <<>>),
          mem |-> rp.mem, tables |-> tabs.tables]

\* the appends of one put, delete, WriteSstableStart or WriteSstableEnd record
PutChunks(key, value) == <<(<<TagPut>>)>> \o WriteVecChunks(key) \o WriteVecChunks(value)

DeleteChunks(key) == <<(<<TagDelete>>)>> \o WriteVecChunks(key)

StartChunks(name) == <<(<<TagWriteSstableStart>>)>> \o WriteVecChunks(name)

EndChunks(name) == <<(<<TagWriteSstableEnd>>)>> \o WriteVecChunks(name)

\* the first n appends of a record, written at the appender's position
AppendChunks(fs, pos, chunks, n) ==
    Store(fs, WalName, WriteAt(fs[WalName], pos, Concat(SubSeq(chunks, 1, n))))

\* the choice of new_id in Database::maintain
RECURSIVE NewIdFrom(_, _)
NewIdFrom(tables, newId) ==
    IF tables = <<>> THEN newId
    ELSE IF Head(tables).id[1] = 0 /\ Head(tables).id[2] >= newId
         THEN NewIdFrom(Tail(tables), Head(tables).id[2] + 1)
         ELSE NewIdFrom(Tail(tables), newId)

NewId(tables) == NewIdFrom(tables, 0)

\* slice::partition_point with the predicate k > id: the index after the
\* prefix on which it holds; unspecified when the slice is not partitioned
PartitionPoints(tables, id) ==
    LET P(i) == PairLess(id, tables[i].id)
        points == {p \in 0..Len(tables) :
                      /\ \A i \in 1..p : P(i)
                      /\ \A i \in (p + 1)..Len(tables) : ~P(i)}
    IN IF points # {} THEN points ELSE 0..Len(tables)

\* a maintain that writes the blob before anything reaches the WAL
MaintainStorageBlobFirst(fs, pos, mem, name, n) ==
    LET startLen == Len(Concat(StartChunks(name)))
        s1 == IF n >= 1 THEN Store(fs, name, WriteSstable(mem)) ELSE fs
        s2 == AppendChunks(s1, pos, StartChunks(name), Min(Min(n, 4) - Min(n, 1), 3))
        s3 == IF n >= 5 THEN AppendChunks(s2, pos + startLen, EndChunks(name), Min(n - 4, 3)) ELSE s2
    IN IF n >= 8 THEN Store(s3, WalName, <<>>) ELSE s3

\* the storage after the first n of the 8 storage effects of maintain:
\* 3 appends of the Start record, the blob write, 3 appends of the End
\* record, the truncation of the WAL
MaintainStorage(fs, pos, mem, name, n) ==
    LET startLen == Len(Concat(StartChunks(name)))
        s1 == AppendChunks(fs, pos, StartChunks(name), Min(n, 3))
        s2 == IF n >= 4 THEN Store(s1, name, WriteSstable(mem)) ELSE s1
        s3 == IF n >= 5 THEN AppendChunks(s2, pos + startLen, EndChunks(name), Min(n - 4, 3)) ELSE s2
    IN IF n >= 8 THEN Store(s3, WalName, <<>>) ELSE s3

\* the memtable after a put whose first n of 5 appends succeeded: a failed
\* append returns through `?` before MemTable::put is reached
PutOutcomeEager(mem, key, value, n) == MemPut(mem, key, value)

PutOutcome(mem, key, value, n) == IF n = 5 THEN MemPut(mem, key, value) ELSE mem

\* the memtable after a delete whose first n of 3 appends succeeded
DeleteOutcome(mem, key, n) == IF n = 3 THEN MemDelete(mem, key) ELSE mem

\* ---------------------------------------------------------------- actions
Init ==
    /\ files = <<>>
    /\ open = FALSE
    /\ mem_table = <<>>
    /\ sstables = <<>>
    /\ wal_pos = 0
    /\ ops = 0
    /\ last = Op("none", <<>>, <<>>, "ok", <<>>)
    /\ snap = NoSnap
    /\ flushed = <<>>
    /\ faults = 0

Closed ==
    /\ open' = FALSE
    /\ mem_table' = <<>>
    /\ sstables' = <<>>
    /\ wal_pos' = 0

\* Database::open
Open ==
    /\ ~open
    /\ \E listing \in Orders((DOMAIN files) \ {WalName}) :
       LET inc == IF WalName \in DOMAIN files
                  THEN Replay(files[WalName], 0, <<>>, {}).incomplete ELSE {}
       IN \E incOrder \in Orders(inc) :
          LET db == OpenDb(files, listing, incOrder) IN
          /\ files' = db.files
          /\ open' = (db.res = "ok")
          /\ mem_table' = db.mem
          /\ sstables' = db.tables
          /\ wal_pos' = 0
          /\ last' = Op("open", <<>>, <<>>, db.res, files)
          /\ UNCHANGED <<ops, snap>>
    /\ UNCHANGED <<flushed, faults>>

\* the Database value is dropped, or the process stops between operations
Close ==
    /\ open
    /\ Closed
    /\ last' = Op("close", <<>>, <<>>, "ok", <<>>)
    /\ UNCHANGED <<files, ops, snap>>
    /\ UNCHANGED <<flushed, faults>>

\* Database::put
Put(key, value) ==
    /\ open
    /\ ops < MaxOps
    /\ ops' = ops + 1
    /\ wal_pos + Len(Concat(PutChunks(key, value))) <= MaxWalBytes
    /\ files' = AppendChunks(files, wal_pos, PutChunks(key, value), 5)
    /\ wal_pos' = wal_pos + Len(Concat(PutChunks(key, value)))
    /\ mem_table' = PutOutcome(mem_table, key, value, 5)
    /\ last' = Op("put", key, value, "ok", Get(key))
    /\ snap' = NoSnap
    /\ UNCHANGED <<open, sstables>>
    /\ UNCHANGED <<flushed, faults>>

\* the process stops inside put after n of its 5 appends
PutCrash(key, value, n) ==
    /\ open
    /\ ops < MaxOps
    /\ ops' = ops + 1
    /\ wal_pos + Len(Concat(PutChunks(key, value))) <= MaxWalBytes
    /\ files' = AppendChunks(files, wal_pos, PutChunks(key, value), n)
    /\ Closed
    /\ last' = Op("put", <<>>, <<>>, "crash", <<>>)
    /\ snap' = NoSnap
    /\ UNCHANGED <<flushed, faults>>

\* Database::put returns the error of its append number n + 1
PutFail(key, value, n) ==
    /\ open
    /\ ops < MaxOps
    /\ ops' = ops + 1
    /\ wal_pos + Len(Concat(PutChunks(key, value))) <= MaxWalBytes
    /\ files' = AppendChunks(files, wal_pos, PutChunks(key, value), n)
    /\ wal_pos' = wal_pos + Len(Concat(SubSeq(PutChunks(key, value), 1, n)))
    /\ mem_table' = PutOutcome(mem_table, key, value, n)
    /\ last' = Op("put", key, <<>>, "io", <<>>)
    /\ snap' = NoSnap
    /\ faults < MaxFaults
    /\ faults' = faults + 1
    /\ UNCHANGED <<open, sstables, flushed>>

\* Database::delete
Delete(key) ==
    /\ open
    /\ ops < MaxOps
    /\ ops' = ops + 1
    /\ wal_pos + Len(Concat(DeleteChunks(key))) <= MaxWalBytes
    /\ files' = AppendChunks(files, wal_pos, DeleteChunks(key), 3)
    /\ wal_pos' = wal_pos + Len(Concat(DeleteChunks(key)))
    /\ mem_table' = DeleteOutcome(mem_table, key, 3)
    /\ last' = Op("delete", key, <<>>, "ok", <<>>)
    /\ snap' = NoSnap
    /\ UNCHANGED <<open, sstables>>
    /\ UNCHANGED <<flushed, faults>>

\* the process stops inside delete after n of its 3 appends
DeleteCrash(key, n) ==
    /\ open
    /\ ops < MaxOps
    /\ ops' = ops + 1
    /\ wal_pos + Len(Concat(DeleteChunks(key))) <= MaxWalBytes
    /\ files' = AppendChunks(files, wal_pos, DeleteChunks(key), n)
    /\ Closed
    /\ last' = Op("delete", <<>>, <<>>, "crash", <<>>)
    /\ snap' = NoSnap
    /\ UNCHANGED <<flushed, faults>>

\* Database::delete returns the error of its append number n + 1
DeleteFail(key, n) ==
    /\ open
    /\ ops < MaxOps
    /\ ops' = ops + 1
    /\ wal_pos + Len(Concat(DeleteChunks(key))) <= MaxWalBytes
    /\ files' = AppendChunks(files, wal_pos, DeleteChunks(key), n)
    /\ wal_pos' = wal_pos + Len(Concat(SubSeq(DeleteChunks(key), 1, n)))
    /\ mem_table' = DeleteOutcome(mem_table, key, n)
    /\ last' = Op("delete", key, <<>>, "io", <<>>)
    /\ snap' = NoSnap
    /\ faults < MaxFaults
    /\ faults' = faults + 1
    /\ UNCHANGED <<open, sstables, flushed>>

\* Database::get
DoGet(key) ==
    /\ open
    /\ last' = Op("get", key, Get(key).value, Get(key).kind, <<>>)
    /\ snap' = NoSnap
    /\ UNCHANGED <<files, open, mem_table, sstables, wal_pos, ops>>
    /\ UNCHANGED <<flushed, faults>>

\* the keys that bound a range: every key and one above them all
RangeKeys == Keys \cup {<<96 + NumKeys + 1>>}

\* Database::iter_range, then the first RangeIterator::next of a collect():
\* next is todo!(), which panics before any pair is yielded; the Database
\* value is dropped by the unwinding
IterRange(key_start, key_end) ==
    /\ open
    /\ ops < MaxOps
    /\ ops' = ops + 1
    /\ Closed
    /\ last' = Op("iter_range", key_start, <<>>, "panic", key_end)
    /\ snap' = NoSnap
    /\ UNCHANGED <<files, flushed, faults>>

MaintainSnap(n) == [point |-> n, gets |-> [k \in Keys |-> Get(k)], mem |-> mem_table]

\* Database::maintain
Maintain ==
    /\ open
    /\ ops < MaxOps
    /\ ops' = ops + 1
    /\ Len(sstables) < MaxTables
    /\ LET newId == NewId(sstables)
           newName == SstName(FlushLevel, newId)
           written == MaintainStorage(files, wal_pos, mem_table, newName, 7)
           table == SstOpen(written[newName])
       IN /\ \E index \in PartitionPoints(sstables, <<FlushLevel, newId>>) :
                sstables' = InsertAt(sstables, index,
                                [id |-> <<FlushLevel, newId>>, name |-> newName, size |-> table.size])
          /\ files' = MaintainStorage(files, wal_pos, mem_table, newName, 8)
    /\ wal_pos' = 0
    /\ last' = Op("maintain", <<>>, <<>>, "ok", <<>>)
    /\ snap' = MaintainSnap(8)
    /\ UNCHANGED <<open, mem_table>>
    /\ LET newName == SstName(FlushLevel, NewId(sstables)) IN
       flushed' = IF newName \in DOMAIN flushed THEN flushed
                  ELSE Store(flushed, newName, WriteSstable(mem_table))
    /\ UNCHANGED faults

\* the process stops inside maintain after n of its storage effects, n in 1..7
MaintainCrash(n) ==
    /\ open
    /\ ops < MaxOps
    /\ ops' = ops + 1
    /\ Len(sstables) < MaxTables
    /\ files' = MaintainStorage(files, wal_pos, mem_table,
                                SstName(FlushLevel, NewId(sstables)), n)
    /\ Closed
    /\ last' = Op("maintain", <<>>, <<>>, "crash", <<>>)
    /\ snap' = MaintainSnap(n)
    /\ UNCHANGED <<flushed, faults>>

\* the bytes that the first n storage effects of maintain append to the WAL
MaintainAppended(name, n) ==
    Len(Concat(SubSeq(StartChunks(name), 1, Min(n, 3))))
    + (IF n >= 5 THEN Len(Concat(SubSeq(EndChunks(name), 1, Min(n - 4, 3)))) ELSE 0)

\* Database::maintain returns an error after n of its storage effects:
\* for n < 7 the error of the append or blob write number n + 1 (a failed
\* blob write leaves the blob alone or leaves it created and empty); for
\* n = 7 the error of Storage::read or SSTableReader::open (registered is
\* FALSE) or of truncate (registered is TRUE; rewound tells whether its seek
\* was done before set_len failed)
MaintainFail(n, partial, registered, rewound) ==
    /\ open
    /\ ops < MaxOps
    /\ ops' = ops + 1
    /\ faults < MaxFaults
    /\ faults' = faults + 1
    /\ Len(sstables) < MaxTables
    /\ partial => n = 3
    /\ registered => n = 7
    /\ rewound => registered
    /\ LET newId == NewId(sstables)
           newName == SstName(FlushLevel, newId)
           written == MaintainStorage(files, wal_pos, mem_table, newName, n)
       IN /\ files' = IF partial THEN Store(written, newName, <<>>) ELSE written
          /\ wal_pos' = IF rewound THEN 0 ELSE wal_pos + MaintainAppended(newName, n)
          /\ IF registered
             THEN \E index \in PartitionPoints(sstables, <<FlushLevel, newId>>) :
                     sstables' = InsertAt(sstables, index,
                                     [id |-> <<FlushLevel, newId>>, name |-> newName,
                                      size |-> SstOpen(written[newName]).size])
             ELSE sstables' = sstables
    /\ last' = Op("maintain", <<>>, <<>>, "io", <<>>)
    /\ snap' = MaintainSnap(n)
    /\ UNCHANGED <<open, mem_table, flushed>>

Next ==
    \/ Open
    \/ Close
    \/ \E key \in Keys, value \in Values : Put(key, value)
    \/ \E key \in Keys, value \in Values, n \in 1..4 : PutCrash(key, value, n)
    \/ \E key \in Keys : Delete(key)
    \/ \E key \in Keys, n \in 1..2 : DeleteCrash(key, n)
    \/ \E key \in Keys : DoGet(key)
    \/ \E key_start \in RangeKeys, key_end \in RangeKeys : IterRange(key_start, key_end)
    \/ Maintain
    \/ \E n \in 1..7 : MaintainCrash(n)

Spec == Init /\ [][Next]_vars

\* the same program when storage calls can fail and the process does not stop
NextFault ==
    \/ Open
    \/ Close
    \/ \E key \in Keys, value \in Values : Put(key, value)
    \/ \E key \in Keys, value \in Values, n \in 0..4 : PutFail(key, value, n)
    \/ \E key \in Keys : Delete(key)
    \/ \E key \in Keys, n \in 0..2 : DeleteFail(key, n)
    \/ \E key \in Keys : DoGet(key)
    \/ Maintain
    \/ \E n \in 0..7, partial \in BOOLEAN, registered \in BOOLEAN, rewound \in BOOLEAN :
          MaintainFail(n, partial, registered, rewound)

SpecFault == Init /\ [][NextFault]_vars

\* ------------------------------------- a storage that already holds tables
MaxLevel == 1
MaxStoredId == 1

StoredNames == {SstName(level, id) : level \in 0..MaxLevel, id \in 0..MaxStoredId}

\* a storage with an empty WAL and any set of valid SSTable blobs, each
\* holding no entry
InitStore ==
    /\ \E names \in SUBSET StoredNames :
          files = [n \in names \cup {WalName} |->
                      IF n = WalName THEN <<>> ELSE WriteSstable(<<>>)]
    /\ open = FALSE
    /\ mem_table = <<>>
    /\ sstables = <<>>
    /\ wal_pos = 0
    /\ ops = 0
    /\ last = Op("none", <<>>, <<>>, "ok", <<>>)
    /\ snap = NoSnap
    /\ flushed = <<>>
    /\ faults = 0

NextStore ==
    \/ Open
    \/ Close
    \/ \E key \in Keys, value \in Values : Put(key, value)
    \/ \E key \in Keys : DoGet(key)
    \/ Maintain

SpecStore == InitStore /\ [][NextStore]_vars

\* ------------------------------------------------- the memtable on its own
MaxKeyLen == 1
MaxMemEntries == 3

\* the bytes of a memtable key: one below and one above 128
MemKeyBytes == {97, 200}

\* every key of at most MaxKeyLen bytes, the empty key included
MemKeys == UNION {[1..n -> MemKeyBytes] : n \in 0..MaxKeyLen}

\* Default::default() of MemTable
InitMem ==
    /\ files = <<>>
    /\ open = FALSE
    /\ mem_table = <<>>
    /\ sstables = <<>>
    /\ wal_pos = 0
    /\ ops = 0
    /\ last = Op("none", <<>>, <<>>, "ok", <<>>)
    /\ snap = NoSnap
    /\ flushed = <<>>
    /\ faults = 0

\* MemTable::put
MemTablePut(key, value) ==
    /\ Len(MemPut(mem_table, key, value)) <= MaxMemEntries
    /\ mem_table' = MemPut(mem_table, key, value)
    /\ last' = Op("mem_put", key, value, "ok", <<>>)
    /\ UNCHANGED <<files, open, sstables, wal_pos, ops, snap, flushed, faults>>

\* MemTable::delete; the result is the bool it returns
MemTableDelete(key) ==
    /\ mem_table' = MemDelete(mem_table, key)
    /\ last' = Op("mem_delete", key, <<>>, Search(mem_table, key).found, <<>>)
    /\ UNCHANGED <<files, open, sstables, wal_pos, ops, snap, flushed, faults>>

\* slice::partition_point with the predicate key < key_start: the index after
\* the prefix on which it holds; unspecified when the slice is not partitioned
MemPartitionPoints(entries, key_start) ==
    LET P(i) == BytesLess(entries[i][1], key_start)
        points == {p \in 0..Len(entries) :
                      /\ \A i \in 1..p : P(i)
                      /\ \A i \in (p + 1)..Len(entries) : ~P(i)}
    IN IF points # {} THEN points ELSE 0..Len(entries)

\* an iterator that also yields the first entry that is not below key_end
RECURSIVE MemRangeCollectThrough(_, _, _)
MemRangeCollectThrough(entries, next_index, key_end) ==
    IF next_index >= Len(entries) THEN <<>>
    ELSE IF BytesLess(entries[next_index + 1][1], key_end)
         THEN <<entries[next_index + 1]>> \o MemRangeCollectThrough(entries, next_index + 1, key_end)
         ELSE <<entries[next_index + 1]>>

\* MemTableRangeIterator::next called until it returns None: the entries
\* it yields, from next_index on
RECURSIVE MemRangeCollect(_, _, _)
MemRangeCollect(entries, next_index, key_end) ==
    IF next_index >= Len(entries) THEN <<>>
    ELSE IF BytesLess(entries[next_index + 1][1], key_end)
         THEN <<entries[next_index + 1]>> \o MemRangeCollect(entries, next_index + 1, key_end)
         ELSE <<>>

\* MemTable::iter_range(key_start, key_end).collect()
MemTableIterRange(key_start, key_end) ==
    /\ \E index \in MemPartitionPoints(mem_table, key_start) :
          last' = Op("mem_iter_range", key_start,
                     MemRangeCollect(mem_table, index, key_end), "ok", key_end)
    /\ UNCHANGED <<files, open, mem_table, sstables, wal_pos, ops, snap, flushed, faults>>

NextMem ==
    \/ \E key \in MemKeys, value \in Values : MemTablePut(key, value)
    \/ \E key \in MemKeys : MemTableDelete(key)
    \/ \E key_start \in MemKeys, key_end \in MemKeys : MemTableIterRange(key_start, key_end)

SpecMem == InitMem /\ [][NextMem]_vars

\* ------------------------------------------- SSTable round trip on its own
MaxEntries == 4

SstKeys == {<<96 + i>> : i \in 1..MaxEntries}

RECURSIVE SortedEntries(_, _)
SortedEntries(keys, f) ==
    IF keys = {} THEN <<>>
    ELSE LET k == CHOOSE x \in keys : \A y \in keys \ {x} : BytesLess(x, y)
         IN <<(<<k, f[k]>>)>> \o SortedEntries(keys \ {k}, f)

\* every list of entries strictly ascending by key over SstKeys
SortedTables == UNION {{SortedEntries(S, f) : f \in [S -> Values]} : S \in SUBSET SstKeys}

TableName == SstName(FlushLevel, 0)

InitSst ==
    /\ \E E \in SortedTables :
          /\ files = Store(<<>>, TableName, WriteSstable(E))
          /\ snap = [point |-> 0, gets |-> <<>>, mem |-> E]
    /\ open = FALSE
    /\ mem_table = <<>>
    /\ sstables = <<>>
    /\ wal_pos = 0
    /\ ops = 0
    /\ last = Op("none", <<>>, <<>>, "ok", <<>>)
    /\ flushed = <<>>
    /\ faults = 0

\* SSTableReader::open on the image, then SSTableReader::get
SstLookup(key) ==
    /\ LET table == SstOpen(files[TableName])
           r == IF table.ok THEN SstGet(files[TableName], table.size, key) ELSE IoErr
       IN last' = Op("sstget", key, r.value, r.kind, <<>>)
    /\ UNCHANGED <<files, open, mem_table, sstables, wal_pos, ops, snap, flushed, faults>>

NextSst == \E key \in SstKeys : SstLookup(key)

SpecSst == InitSst /\ [][NextSst]_vars

\* ------------------------------------------------ table names on their own
MaxFieldLen == 2

\* the bytes of a field: two digits, both signs and a letter
FieldBytes == {48, 55, Plus, Dash, 120}

Fields == UNION {[1..n -> FieldBytes] : n \in 0..MaxFieldLen}

\* 0, 1, 9, 10, 2^16 - 1, 2^16, 2^31 - 1, 2^31 and 2^32 - 1
U32Samples == {<<0, 0>>, <<0, 1>>, <<0, 9>>, <<0, 10>>, <<0, 65535>>, <<1, 0>>,
               <<32767, 65535>>, <<32768, 0>>, <<65535, 65535>>}

\* the decimal digits of a u32, as format!("{}") writes them
RECURSIVE ToDecU32(_)
ToDecU32(u) ==
    LET mid == (u[1] % 10) * U32Half + u[2]
        q == <<u[1] \div 10, mid \div 10>>
    IN IF q = <<0, 0>> THEN <<48 + (mid % 10)>>
       ELSE ToDecU32(q) \o <<48 + (mid % 10)>>

FormatName(level, id) == ToDecU32(level) \o <<Dash>> \o ToDecU32(id) \o SstSuffix

\* names put together from two fields, with or without the dash, and a suffix
BuiltNames ==
    {level \o sep \o id \o suffix :
        level \in Fields, id \in Fields, sep \in {<<Dash>>, <<>>},
        suffix \in {SstSuffix, SubSeq(SstSuffix, 1, 3), <<>>, SstSuffix \o SstSuffix}}

TestNames == BuiltNames \cup {FormatName(level, id) : level \in U32Samples, id \in U32Samples}

\* a storage that holds an empty WAL and one blob, an empty SSTable, under a
\* name of TestNames
InitParse ==
    /\ \E name \in TestNames \ {<<>>} :
          files = Store(Store(<<>>, WalName, <<>>), name, WriteSstable(<<>>))
    /\ open = FALSE
    /\ mem_table = <<>>
    /\ sstables = <<>>
    /\ wal_pos = 0
    /\ ops = 0
    /\ last = Op("none", <<>>, <<>>, "ok", <<>>)
    /\ snap = NoSnap
    /\ flushed = <<>>
    /\ faults = 0

\* parse_sstable_name on the name of the stored blob or on the empty name
ParseName(name) ==
    /\ LET r == ParseSstableName(name) IN
       last' = Op("parse", name, <<>>, IF r.ok THEN "ok" ELSE "err", r.id)
    /\ UNCHANGED <<files, open, mem_table, sstables, wal_pos, ops, snap, flushed, faults>>

NextParse ==
    \/ \E name \in ((DOMAIN files) \ {WalName}) \cup {<<>>} : ParseName(name)
    \/ Open

SpecParse == InitParse /\ [][NextParse]_vars

\* ----------------------------------------------------------------- claims
\* the records of a WAL in the framing that put, delete and maintain write:
\* a tag, one length-prefixed string, and for Put a second one
RECURSIVE WalRecords(_, _, _)
WalRecords(wal, offset, acc) ==
    LET tagBuf == ReadExactAt(wal, 1, offset)
        tag == tagBuf.bytes[1]
        first == ReadVec(wal, offset + 1)
        second == ReadVec(wal, first.offset)
    IN
    IF ~tagBuf.ok THEN [records |-> acc, end |-> "clean"]
    ELSE IF tag \notin {TagPut, TagDelete, TagWriteSstableStart, TagWriteSstableEnd}
         THEN [records |-> acc, end |-> "bad"]
    ELSE IF ~first.ok THEN [records |-> acc, end |-> "torn"]
    ELSE IF tag # TagPut
         THEN WalRecords(wal, first.offset, Append(acc, [tag |-> tag, key |-> first.vec, value |-> <<>>]))
    ELSE IF ~second.ok THEN [records |-> acc, end |-> "torn"]
    ELSE WalRecords(wal, second.offset, Append(acc, [tag |-> tag, key |-> first.vec, value |-> second.vec]))

\* the memtable that the Put and Delete records of a record list give
RECURSIVE RecordsMem(_, _)
RecordsMem(records, mem) ==
    IF records = <<>> THEN mem
    ELSE IF Head(records).tag = TagPut
         THEN RecordsMem(Tail(records), MemPut(mem, Head(records).key, Head(records).value))
    ELSE IF Head(records).tag = TagDelete
         THEN RecordsMem(Tail(records), MemDelete(mem, Head(records).key))
    ELSE RecordsMem(Tail(records), mem)

\* the names with a WriteSstableStart record and no later WriteSstableEnd record
UnfinishedNames(records) ==
    {records[i].key : i \in {j \in 1..Len(records) :
        /\ records[j].tag = TagWriteSstableStart
        /\ \A l \in (j + 1)..Len(records) :
              ~(records[l].tag = TagWriteSstableEnd /\ records[l].key = records[j].key)}}

PutOk == last.op = "put" /\ last.res = "ok"

\* C1: after put(k, v) returns Ok, get(k) returns Some(v); also when the put
\* replaces another value of k, after a maintain, and after a reopen.
C1_GetAfterPut == PutOk => Get(last.key) = Some(last.value)

\* a put that replaced a different value of the key, with an SSTable registered
C1_Witness ==
    /\ PutOk
    /\ last.pre.kind = "Some"
    /\ last.pre.value # last.value
    /\ sstables # <<>>
    /\ Get(last.key) = Some(last.value)

\* C2: after put(k, v) and then delete(k) both return Ok, get(k) returns None,
\* also when an earlier maintain flushed a value of k into an SSTable.
C2_GetAfterDelete ==
    [][(/\ PutOk
        /\ last'.op = "delete"
        /\ last'.res = "ok"
        /\ last'.key = last.key)
       => DbGet(files', mem_table', sstables', last.key) = None]_vars

\* C3: get(k) returns the same for every key right before and right after a
\* successful maintain.
C3_MaintainKeepsReads ==
    (last.op = "maintain" /\ last.res = "ok") => \A k \in Keys : Get(k) = snap.gets[k]

\* C4: after put(k, v) returns Ok, the replay of the WAL blob from offset 0
\* onto an empty memtable succeeds and gives v for k.
C4_WalHoldsPut ==
    PutOk =>
        LET rp == Replay(files[WalName], 0, <<>>, {}) IN
        rp.res = "ok" /\ MemGet(rp.mem, last.key) = Some(last.value)

\* C5: after a successful maintain, a close and a reopen, open succeeds and
\* get(k) returns for every key what the memtable held right before the maintain.
C5_FlushSurvivesReopen ==
    (last.op = "open" /\ snap.point = 8) =>
        /\ last.res = "ok"
        /\ \A k \in Keys : Get(k) = MemGet(snap.mem, k)

\* C6: when the WAL read at open holds a WriteSstableStart(name) record with
\* no later WriteSstableEnd(name), open succeeds, the blob name is gone and
\* not registered, and get gives what the Put and Delete records alone give.
C6_IncompleteFlushCleanup ==
    (last.op = "open" /\ WalName \in DOMAIN last.pre) =>
        LET wr == WalRecords(last.pre[WalName], 0, <<>>) IN
        (wr.end = "clean" /\ UnfinishedNames(wr.records) # {}) =>
            /\ last.res = "ok"
            /\ \A name \in UnfinishedNames(wr.records) :
                  /\ name \notin DOMAIN files
                  /\ \A i \in 1..Len(sstables) : sstables[i].name # name
            /\ mem_table = RecordsMem(wr.records, <<>>)
            /\ \A k \in Keys : Get(k) = MemGet(RecordsMem(wr.records, <<>>), k)

\* C7: when the process stops in maintain after the WriteSstableEnd record
\* is appended and before the WAL is truncated, the reopen succeeds, the new
\* SSTable is registered, the memtable is rebuilt, and get(k) returns for
\* every key what it returned before the maintain.
C7_CrashBeforeTruncate ==
    (last.op = "open" /\ snap.point = 7) =>
        /\ last.res = "ok"
        /\ \E i \in 1..Len(sstables) : sstables[i].name \in DOMAIN files
        /\ mem_table = snap.mem
        /\ \A k \in Keys : Get(k) = snap.gets[k]

\* C8: when the WAL read at open is complete records followed by a strict
\* prefix of one more record, open gives the memtable of the complete records
\* or fails with InvalidDatabase.
C8_TornRecord ==
    (last.op = "open" /\ WalName \in DOMAIN last.pre) =>
        LET wr == WalRecords(last.pre[WalName], 0, <<>>) IN
        wr.end = "torn" =>
            \/ last.res = "invalid"
            \/ last.res = "ok" /\ mem_table = RecordsMem(wr.records, <<>>)

\* C9: on a reader opened over write_sstable(E), for E strictly ascending by
\* key, get(k) returns Some(v) when (k, v) is in E and None when no entry of
\* E has key k.
C9_SstableLookup ==
    last.op = "sstget" => [kind |-> last.res, value |-> last.value] = MemGet(snap.mem, last.key)

\* C10: no two entries of the registry share a (level, id) pair: every
\* maintain picks an id that no registered SSTable of level 1 has.
C10_FreshTableId ==
    \A i, j \in 1..Len(sstables) : sstables[i].id = sstables[j].id => i = j

\* C11: a blob whose maintain has completed (End record appended, table
\* registered, WAL truncated) keeps its content and is never deleted by any
\* later put, delete, get, maintain, stop inside a maintain, or reopen.
C11_FlushedBlobImmutable ==
    \A name \in DOMAIN flushed : name \in DOMAIN files /\ files[name] = flushed[name]

\* C12: when an append of put or delete fails, the call returns the error,
\* the memtable is what it was before the call, and get returns for every
\* key what it returned before.
C12_FailedWriteKeepsMemtable ==
    [][(last'.op \in {"put", "delete"} /\ last'.res = "io")
       => /\ mem_table' = mem_table
          /\ \A k \in Keys : DbGet(files', mem_table', sstables', k) = Get(k)]_vars

\* a put of a key that the memtable does not hold has failed, in a session
\* whose memtable holds another key
C12_Witness ==
    /\ last.op = "put"
    /\ last.res = "io"
    /\ open
    /\ mem_table # <<>>
    /\ MemGet(mem_table, last.key) = None

\* what iter_range is to yield: the pairs of get, ascending, inside the range
RangeOfGet(key_start, key_end) ==
    LET inside == {k \in Keys : /\ ~BytesLess(k, key_start)
                                /\ BytesLess(k, key_end)
                                /\ Get(k).kind = "Some"}
    IN SortedEntries(inside, [k \in inside |-> Get(k).value])

\* C13: collecting Database.iter_range(start, end) ends normally and gives
\* exactly the pairs (k, v) with start <= k < end and get(k) = Some(v), each
\* once, ascending by key.
C13_IterRangeYieldsGets ==
    [][last'.op = "iter_range"
       => /\ last'.res = "ok"
          /\ last'.value = RangeOfGet(last'.key, last'.pre)]_vars

AllDigits(s) == s # <<>> /\ \A i \in 1..Len(s) : IsDigit(s[i])

\* the grammar of table names: decimal digits, a dash, decimal digits, ".sst"
MatchesGrammar(name) ==
    \E dash \in 1..Len(name) :
        /\ name[dash] = Dash
        /\ AllDigits(SubSeq(name, 1, dash - 1))
        /\ EndsWith(name, SstSuffix)
        /\ AllDigits(SubSeq(name, dash + 1, Len(name) - Len(SstSuffix)))

\* C14: parse_sstable_name gives Ok((level, id)) for the name
\* "{level}-{id}.sst" of every level and id below 2^32, and Err for every
\* name outside the grammar (no dash, no dot, an empty field, a field that is
\* no number, a field with a sign, a wrong suffix); open of a storage that
\* holds a blob with a name outside the grammar fails with InvalidDatabase.
C14_ParseSstableName ==
    /\ last.op = "parse"
       => /\ \A level \in U32Samples, id \in U32Samples :
                last.key = FormatName(level, id)
                => last.res = "ok" /\ last.pre = <<level, id>>
          /\ ~MatchesGrammar(last.key) => last.res = "err"
    /\ (last.op = "open" /\ \E name \in (DOMAIN last.pre) \ {WalName} : ~MatchesGrammar(name))
       => last.res = "invalid"

\* C15: in every maintain, whether it returns Ok or an error, the Start
\* record is in the WAL before the blob is written, the End record is
\* appended only after the blob holds the image of the memtable, and the WAL
\* is truncated only after the End record is whole and the table is
\* registered; after a failed step no later step has run and the WAL is
\* not truncated.
C15_MaintainStepOrder ==
    [][last'.op = "maintain" =>
        LET name == SstName(FlushLevel, NewId(sstables))
            startRec == Concat(StartChunks(name))
            endRec == Concat(EndChunks(name))
            wal == files[WalName]
            wal2 == files'[WalName]
            endAt == wal_pos + Len(startRec)
            startDone == ReadExactAt(wal2, Len(startRec), wal_pos).bytes = startRec
            endBegun == SubSeq(wal2, endAt + 1, Len(wal2)) # SubSeq(wal, endAt + 1, Len(wal))
            endDone == ReadExactAt(wal2, Len(endRec), endAt).bytes = endRec
            blobTouched == /\ name \in DOMAIN files'
                           /\ (name \notin DOMAIN files \/ files'[name] # files[name])
            blobDone == name \in DOMAIN files' /\ files'[name] = WriteSstable(mem_table)
            registered == open' /\ sstables' # sstables
        IN IF last'.res = "ok"
           THEN wal2 = <<>> /\ registered /\ blobDone /\ wal_pos' = 0
           ELSE /\ blobTouched => startDone
                /\ endBegun => startDone /\ blobDone
                /\ registered => startDone /\ blobDone /\ endDone
                /\ Len(wal2) >= Len(wal)
                /\ SubSeq(wal2, 1, wal_pos) = SubSeq(wal, 1, wal_pos)
                /\ startDone => wal2 # <<>>]_vars

\* a maintain has failed after the blob write and before the End record
C15_Witness ==
    /\ last.op = "maintain"
    /\ last.res = "io"
    /\ snap.point = 4
    /\ SstName(FlushLevel, NewId(sstables)) \in DOMAIN files
    /\ Len(files[WalName]) = wal_pos

IsPrefix(a, b) == Len(a) <= Len(b) /\ SubSeq(b, 1, Len(a)) = a

\* C16: open leaves the bytes of an existing WAL as they are, and every
\* record that put, delete or maintain writes afterwards is placed after
\* them: the WAL after a put or delete is the WAL before it followed by the
\* new record, and the WAL before a maintain that has not truncated is a
\* prefix of the WAL after it.
C16_ReopenedWalAppends ==
    [][/\ (last'.op = "open" /\ last'.res = "ok" /\ WalName \in DOMAIN files)
          => files'[WalName] = files[WalName]
       /\ (last'.op = "put" /\ last'.res = "ok")
          => files'[WalName] = files[WalName] \o Concat(PutChunks(last'.key, last'.value))
       /\ (last'.op = "delete" /\ last'.res = "ok")
          => files'[WalName] = files[WalName] \o Concat(DeleteChunks(last'.key))
       /\ (last'.op = "maintain" /\ last'.res # "ok")
          => IsPrefix(files[WalName], files'[WalName])]_vars

\* C17: after every put or delete, whether it returned Ok or the error of a
\* failed append, the WAL is a sequence of whole framed records: the failed
\* call added nothing or one whole record.
C17_WalOnlyWholeRecords ==
    (open /\ last.op \in {"put", "delete"} /\ last.res \in {"ok", "io"})
    => WalRecords(files[WalName], 0, <<>>).end = "clean"

\* the entries that an SSTable image holds, read in the layout of
\* write_sstable: the count, one offset per entry, then the entries
SstEntry(file, count, i) ==
    LET at == 4 + count * 8 + BEVal(ReadExactAt(file, 8, 4 + (i - 1) * 8).bytes)
        keyLen == BEVal(ReadExactAt(file, 4, at).bytes)
        valueLen == BEVal(ReadExactAt(file, 4, at + 4 + keyLen).bytes)
    IN <<ReadExactAt(file, keyLen, at + 4).bytes,
         ReadExactAt(file, valueLen, at + 4 + keyLen + 4).bytes>>

SstEntries(file) ==
    LET count == BEVal(ReadExactAt(file, 4, 0).bytes) IN
    [i \in 1..count |-> SstEntry(file, count, i)]

\* the registered tables whose blob holds the key
Holders(key) ==
    {i \in 1..Len(sstables) :
        \E e \in Range(SstEntries(files[sstables[i].name])) : e[1] = key}

\* C18: when the memtable has an entry for k, get(k) returns it; otherwise
\* get(k) returns the value that the registered SSTable with the greatest
\* (level, id) among those holding k stores for it, and None only when no
\* registered SSTable holds k.
C18_GetNewestTable ==
    open =>
    \A k \in Keys :
        IF MemGet(mem_table, k).kind = "Some" THEN Get(k) = MemGet(mem_table, k)
        ELSE IF Holders(k) = {} THEN Get(k) = None
        ELSE LET top == CHOOSE i \in Holders(k) :
                           \A j \in Holders(k) : ~PairLess(sstables[i].id, sstables[j].id)
                 e == CHOOSE e \in Range(SstEntries(files[sstables[top].name])) : e[1] = k
             IN Get(k) = Some(e[2])

\* C19: whenever a database is open, after open over any set of valid
\* SSTable blobs listed in any order and after every maintain, the registry
\* is in ascending order of (level, id).
C19_RegistrySorted ==
    open => \A i, j \in 1..Len(sstables) :
                i < j => ~PairLess(sstables[j].id, sstables[i].id)

\* C20: between the operations of an open database the memtable is what
\* replaying the records of the current WAL onto an empty memtable gives; in
\* particular it is empty right after a maintain has truncated the WAL.
C20_MemtableIsWalReplay ==
    open => mem_table = RecordsMem(WalRecords(files[WalName], 0, <<>>).records, <<>>)

\* the indexes of the entries with the key
IndexesOf(entries, key) == {i \in 1..Len(entries) : entries[i][1] = key}

\* C21: from the empty memtable, after every MemTable.put and
\* MemTable.delete the keys of the entries are strictly increasing in
\* unsigned byte order; a put of a key that is present replaces the value at
\* its index and touches nothing else; delete returns true exactly when the
\* key was present.
C21_MemTableSorted ==
    [][/\ \A i \in 1..(Len(mem_table') - 1) :
             BytesLess(mem_table'[i][1], mem_table'[i + 1][1])
       /\ (last'.op = "mem_put" /\ IndexesOf(mem_table, last'.key) # {})
          => /\ Len(mem_table') = Len(mem_table)
             /\ \A i \in 1..Len(mem_table) :
                   mem_table'[i] = IF i \in IndexesOf(mem_table, last'.key)
                                   THEN <<last'.key, last'.value>> ELSE mem_table[i]
       /\ last'.op = "mem_delete"
          => last'.res = (IndexesOf(mem_table, last'.key) # {})]_vars

\* a key has been put between two keys that the memtable held, one of them
\* with a byte above 127
C21_Witness ==
    /\ last.op = "mem_put"
    /\ Len(mem_table) = 3
    /\ mem_table[2][1] = last.key
    /\ mem_table[3][1][1] = 200

\* the entries of the memtable with key_start <= key < key_end, in order
EntriesInRange(entries, key_start, key_end) ==
    LET inside(e) == ~BytesLess(e[1], key_start) /\ BytesLess(e[1], key_end)
    IN SelectSeq(entries, inside)

\* C22: for every memtable and all start and end, start >= end included,
\* MemTable.iter_range(start, end) yields exactly the entries with
\* start <= key < end, each once, ascending, and then ends; it leaves the
\* memtable as it was, so that a second call yields the same.
C22_MemTableIterRange ==
    [][last'.op = "mem_iter_range"
       => /\ last'.value = EntriesInRange(mem_table, last'.key, last'.pre)
          /\ mem_table' = mem_table]_vars

\* a range that leaves out entries on both sides has been iterated
C22_Witness ==
    /\ last.op = "mem_iter_range"
    /\ Len(mem_table) = 3
    /\ last.value = <<mem_table[2]>>

\* a range whose start is not below its end has been iterated on a
\* memtable that holds the start key
EmptyRangeIterated ==
    /\ last.op = "mem_iter_range"
    /\ ~BytesLess(last.key, last.pre)
    /\ IndexesOf(mem_table, last.key) # {}

====
